---- MODULE Spec2Model ----
(***************************************************************************)
(* Model of the diem repository: the multi-lap training pipeline of        *)
(* experiments/cifar/train.py (job chain, train(runid, lap), sgd_step,     *)
(* EMA shadow, checkpoints) and the U-Net composition of priors/nn.py      *)
(* (UNet.__init__ and UNet.__call__).                                      *)
(***************************************************************************)
EXTENDS Integers, Sequences, FiniteSets, TLC

VARIABLES
    config,   \* run configuration and dataset sizes (CONFIG, len(dataset[...]))
    pc,       \* pc[lap]: position of job train_{lap}
    proc,     \* proc[lap]: the locals of train(runid, lap)
    files,    \* files[lap]: content of runpath/checkpoint_{lap}.pkl
    writes,   \* writes[lap]: number of dump_module calls on checkpoint_{lap}.pkl
    net,      \* the arguments of UNet(...) and of one UNet.__call__
    upc,      \* position inside UNet.__call__
    x,        \* the local x of UNet.__call__
    memory,   \* the local memory of UNet.__call__
    skips,    \* the additions x + y performed so far, as <<ascending depth, depth of y>>
    fresh     \* next array identity (Python object identity of arrays)

vars == <<config, pc, proc, files, writes, net, upc, x, memory, skips, fresh>>
trainVars == <<config, pc, proc, files, writes>>
unetVars == <<net, upc, x, memory, skips, fresh>>

----------------------------------------------------------------------------
(* Bounds of the model *)

MaxLaps == 2
MaxEpochs == 17
MaxN == 3
MaxTest == 16
MaxBatch == 2

(* The period of the evaluation, `(epoch + 1) % 16 == 0` *)
EvalEvery == 16

(* The rows of the evaluation batch, `testset_yA[:16]` *)
EvalRows == 16

(* The side of the grid the evaluation samples are reshaped to, `x.reshape(4, 4, 32, 32, 3)` *)
EvalGrid == 4

Laps == 0 .. (MaxLaps - 1)

----------------------------------------------------------------------------
(* Values *)

(* mu_x values: the mean of the training set generated in lap k is k *)
MuFit == -1      \* mu_x returned by fit_moments
MuInit == -2     \* mu_x of a Denoiser fresh from make_model
MuNone == -3     \* no module

(* Weights: opt is the number of optimizer updates behind the value, ema   *)
(* the number of EMA averagings behind it.                                 *)
W0 == [opt |-> 0, ema |-> 0]

NoModule == [kind |-> "none", weights |-> W0, mu_x |-> MuNone, training |-> "none"]

(* a checkpoint file: absent, being written (exists, not complete) or complete *)
NoFile == [exists |-> FALSE, complete |-> FALSE, module |-> NoModule]

(* the file from the moment dump_module opens it to the end of the write *)
PartialFile == [exists |-> TRUE, complete |-> FALSE, module |-> NoModule]

NoSample ==
    [site |-> "none", kind |-> "none", training |-> "none", weights |-> W0,
     mu_x |-> MuNone]

(* GaussianDenoiser(mu_x, sigma_x): no network, no stochastic layer *)
GaussianDenoiser(mu) ==
    [kind |-> "gaussian", weights |-> W0, mu_x |-> mu, training |-> "none"]

(* make_model(key, **config): a Denoiser with fresh parameters *)
make_model ==
    [kind |-> "denoiser", weights |-> W0, mu_x |-> MuInit, training |-> "on"]

(* module.train(mode): sets the flag of the stochastic layers, when any *)
SetTraining(m, mode) ==
    IF m.training = "none" THEN m
    ELSE [m EXCEPT !.training = IF mode THEN "on" ELSE "off"]

(* static(params, others): a new module built from the partition *)
Combine(static, weights, others) ==
    [kind |-> "denoiser", weights |-> weights, mu_x |-> others, training |-> static]

(* optax.apply_updates(params, updates) *)
apply_updates(params) == [params EXCEPT !.opt = @ + 1]

(* ema(avrg, params): decay * avrg + (1 - decay) * params *)
ema(avrg, params) == [opt |-> params.opt, ema |-> avrg.ema + 1]

(* dataset.iter(batch_size, drop_last_batch=True): number of batches *)
iter_len(n, batch_size) == n \div batch_size

(* dataset.map(..., batched=True, drop_last_batch=True): the rows of the    *)
(* result. With no full batch, transform is never applied and the dataset   *)
(* comes back as it was, columns y and A included                           *)
generate_len(n, batch_size) ==
    IF iter_len(n, batch_size) = 0 THEN n ELSE iter_len(n, batch_size) * batch_size

(* the dataset generate returns: its rows, and whether it has the column x *)
generate(n, batch_size) ==
    [rows |-> generate_len(n, batch_size), x |-> iter_len(n, batch_size) > 0]

(* a dataset not generated yet *)
NoDataset == [rows |-> 0, x |-> FALSE]

(* the floor division applied to the epochs alone *)
ScheduleStepsEpochsFirst(c) == (c.epochs \div c.batch_size) * c.N

(* steps = config.epochs * len(trainset_yA) // config.batch_size *)
ScheduleSteps(c) == (c.epochs * c.N) \div c.batch_size

(* the chain without its dependencies: every job may start at once *)
DependenciesNone(k) == TRUE

(* jobs[lap].after(jobs[lap - 1]) *)
DependenciesMet(k) == IF k > 0 THEN pc[k - 1] = "success" ELSE TRUE

(* consecutive non-finite losses seen by the lap, 2 meaning two or more in a row at some point *)
Streak(s, isnan) ==
    IF s = 2 THEN 2 ELSE IF isnan THEN s + 1 ELSE 0

LocalsInit ==
    [previous |-> NoModule, model |-> NoModule,
     trainset |-> NoDataset, testset |-> NoDataset,
     static |-> "none", others |-> MuNone,
     params |-> W0, avrg |-> W0, opt_state |-> 0, steps |-> 0,
     grads |-> W0, epoch |-> 0, batch |-> 0,
     loss_val |-> W0, sampled |-> NoSample,
     sgdMode |-> "none", sgdCalls |-> 0, sgdAfterEval |-> FALSE,
     muAssigns |-> 0, evals |-> 0, nanStreak |-> 0, diedAt |-> "none"]

Running(k) ==
    pc[k] \in {"previous", "generate", "setup", "train", "checkpoint", "dump", "exit"}

(* the locals of a process that died at position `at`; what a process that  *)
(* reached dump_module had computed is kept as the record of what it wrote   *)
Dead(k, at) ==
    IF at \in {"dump", "exit"}
    THEN [proc[k] EXCEPT !.diedAt = at]
    ELSE [LocalsInit EXCEPT !.diedAt = at]

----------------------------------------------------------------------------
(* The job chain and train(runid, lap) *)

(* len(testset_yA): up to a batch, one row short of y_eval's 16, or enough *)
TestSizes == (0 .. MaxBatch) \cup ((EvalRows - 1) .. MaxTest)

InitTrain ==
    /\ config \in [epochs : 1 .. MaxEpochs, batch_size : 1 .. MaxBatch,
                   N : 0 .. MaxN, NTest : TestSizes]
    /\ pc = [k \in Laps |-> "pending"]
    /\ proc = [k \in Laps |-> LocalsInit]
    /\ files = [k \in Laps |-> NoFile]
    /\ writes = [k \in Laps |-> 0]

(* schedule of the jobs: job train_k is launched once its dependency has succeeded *)
Schedule(k) ==
    /\ pc[k] = "pending"
    /\ DependenciesMet(k)
    /\ pc' = [pc EXCEPT ![k] = "previous"]
    /\ UNCHANGED <<config, proc, files, writes, unetVars>>

(* # Previous: load_module(checkpoint_{lap-1}) or the fitted GaussianDenoiser *)
Previous(k) ==
    /\ pc[k] = "previous"
    /\ IF k > 0
       THEN IF files[k - 1].exists /\ files[k - 1].complete
            THEN /\ proc' = [proc EXCEPT ![k].previous = files[k - 1].module]
                 /\ pc' = [pc EXCEPT ![k] = "generate"]
            ELSE \* load_module raises on a missing or truncated file
                 /\ proc' = [proc EXCEPT ![k] = Dead(k, "previous")]
                 /\ pc' = [pc EXCEPT ![k] = "failed"]
       ELSE /\ proc' = [proc EXCEPT ![k].previous = GaussianDenoiser(MuFit)]
            /\ pc' = [pc EXCEPT ![k] = "generate"]
    /\ UNCHANGED <<config, files, writes, unetVars>>

(* the sample() calls of generate(model, dataset, ...): one per full batch *)
GenerateSample(m, calls, old) ==
    IF calls > 0
    THEN [site |-> "generate", kind |-> m.kind, training |-> m.training,
          weights |-> m.weights, mu_x |-> m.mu_x]
    ELSE old

(* ## Generate: trainset and testset sampled from the previous model *)
Generate(k) ==
    /\ pc[k] = "generate"
    /\ LET b == config.batch_size
           calls == iter_len(config.N, b) + iter_len(config.NTest, b)
       IN proc' = [proc EXCEPT
                ![k].trainset = generate(config.N, b),
                ![k].testset = generate(config.NTest, b),
                ![k].sampled = GenerateSample(proc[k].previous, calls, @)]
    /\ pc' = [pc EXCEPT ![k] = "setup"]
    /\ UNCHANGED <<config, files, writes, unetVars>>

(* the assignment of mu_x left out *)
AssignMuSkipped(m, mu) == m

(* model.mu_x = mu_x *)
AssignMu(m, mu) == [m EXCEPT !.mu_x = mu]

(* model = previous if lap > 0 else make_model(...) *)
ChooseModel(k) == IF k > 0 THEN proc[k].previous ELSE make_model

(* ## Moments, # Model, # Optimizer, # EMA: lines 130-162 *)
Setup(k) ==
    /\ pc[k] = "setup"
    /\ IF ~proc[k].trainset.x
       THEN \* x_fit = trainset[:16384]['x'] raises: the dataset has no column x
            /\ proc' = [proc EXCEPT ![k] = Dead(k, "setup")]
            /\ pc' = [pc EXCEPT ![k] = "failed"]
       ELSE LET mu_x == k
                model == SetTraining(AssignMu(ChooseModel(k), mu_x), TRUE)
            IN /\ proc' = [proc EXCEPT
                      ![k].model = model,
                      ![k].previous = IF k > 0 THEN model ELSE @,
                      ![k].muAssigns = @ + 1,
                      ![k].static = model.training,
                      ![k].others = model.mu_x,
                      ![k].params = model.weights,
                      ![k].avrg = model.weights,
                      ![k].opt_state = 0,
                      ![k].steps = ScheduleSteps(config)]
               /\ pc' = [pc EXCEPT ![k] = "train"]
    /\ UNCHANGED <<config, files, writes, unetVars>>

(* jax.value_and_grad(ell)(params, others, x, key): the point of differentiation *)
GradPoint(avrg, params) == params

(* the EMA fed with the parameters from before the update *)
EmaSourceStale(old, new) == old

(* the parameters the EMA averages in: those returned by apply_updates *)
EmaSource(old, new) == new

(* the module ell evaluates: static(params, others) *)
EllModule(k, weights) == Combine(proc[k].static, weights, proc[k].others)

(* one batch of the epoch: augment, then sgd_step(avrg, params, others, opt_state, x, key) *)
SgdStep(k, isnan) ==
    /\ pc[k] = "train"
    /\ proc[k].epoch < config.epochs
    /\ proc[k].batch < iter_len(proc[k].trainset.rows, config.batch_size)
    /\ LET p == proc[k]
           at == GradPoint(p.avrg, p.params)
           new == apply_updates(p.params)
       IN proc' = [proc EXCEPT
                ![k].grads = at,
                ![k].opt_state = @ + 1,
                ![k].params = new,
                ![k].avrg = ema(p.avrg, EmaSource(p.params, new)),
                ![k].sgdMode = EllModule(k, at).training,
                ![k].sgdCalls = @ + 1,
                ![k].sgdAfterEval = (p.evals > 0),
                ![k].nanStreak = Streak(@, isnan),
                ![k].batch = @ + 1]
    /\ UNCHANGED <<config, pc, files, writes, unetVars>>

(* the raw parameters read in place of the shadow *)
ReadRawParams(k) == proc[k].params

(* the parameters read by validation, evaluation and checkpoint *)
ReadWeights(k) == proc[k].avrg

(* model = static(avrg, others); model.train(False) *)
EvalModel(k) == SetTraining(Combine(proc[k].static, ReadWeights(k), proc[k].others), FALSE)

(* model.train(False) reaching the flag held by `static` *)
StaticShared(k) == "off"

(* the flag held by `static` after model.train(False) was called on static(avrg, others) *)
StaticAfterEval(k) == proc[k].static

(* the checkpoint reached after the first epoch *)
LoopExitEarly(epoch) == "checkpoint"

(* `for epoch in trange(config.epochs)`: the position after the body of `epoch` *)
LoopExit(epoch) == IF epoch + 1 < config.epochs THEN "train" ELSE "checkpoint"

(* y_eval, A_eval = testset_yA[:16]: the rows of the evaluation batch *)
eval_len(n) == IF n < EvalRows THEN n ELSE EvalRows

(* x.reshape(4, 4, 32, 32, 3) on the samples of the evaluation batch *)
ReshapeOk(rows) == rows = EvalGrid * EvalGrid

(* end of an epoch: np.stack(losses), ## Validation, ## Eval, run.log *)
EndEpoch(k) ==
    /\ pc[k] = "train"
    /\ proc[k].epoch < config.epochs
    /\ proc[k].batch = iter_len(proc[k].trainset.rows, config.batch_size)
    /\ IF \/ iter_len(proc[k].trainset.rows, config.batch_size) = 0
          \/ iter_len(proc[k].testset.rows, config.batch_size) = 0
       THEN \* np.stack of an empty list raises ValueError
            /\ proc' = [proc EXCEPT ![k] = Dead(k, "train")]
            /\ pc' = [pc EXCEPT ![k] = "failed"]
       ELSE LET p == proc[k]
                eval == (p.epoch + 1) % EvalEvery = 0
                m == EvalModel(k)
            IN IF eval /\ ~ReshapeOk(eval_len(config.NTest))
               THEN \* sample(model, y_eval, ...) returns, then x.reshape raises
                    /\ proc' = [proc EXCEPT ![k] =
                                   [Dead(k, "eval") EXCEPT
                                       !.sampled = [site |-> "eval", kind |-> m.kind,
                                                    training |-> m.training,
                                                    weights |-> m.weights,
                                                    mu_x |-> m.mu_x]]]
                    /\ pc' = [pc EXCEPT ![k] = "failed"]
               ELSE
               /\ proc' = [proc EXCEPT
                       ![k].loss_val = EllModule(k, ReadWeights(k)).weights,
                       ![k].model = IF eval THEN m ELSE @,
                       ![k].static = IF eval THEN StaticAfterEval(k) ELSE @,
                       ![k].sampled = IF eval
                                      THEN [site |-> "eval", kind |-> m.kind,
                                            training |-> m.training,
                                            weights |-> m.weights,
                                            mu_x |-> m.mu_x]
                                      ELSE @,
                       ![k].evals = IF eval THEN @ + 1 ELSE @,
                       ![k].epoch = @ + 1,
                       ![k].batch = 0]
               /\ pc' = [pc EXCEPT ![k] = LoopExit(p.epoch)]
    /\ UNCHANGED <<config, files, writes, unetVars>>

(* ## Checkpoint: model = static(avrg, others); model.train(False); dump_module *)
(* opens checkpoint_{lap}.pkl for writing                                        *)
Checkpoint(k) ==
    /\ pc[k] = "checkpoint"
    /\ proc' = [proc EXCEPT ![k].model = EvalModel(k)]
    /\ files' = [files EXCEPT ![k] = PartialFile]
    /\ writes' = [writes EXCEPT ![k] = @ + 1]
    /\ pc' = [pc EXCEPT ![k] = "dump"]
    /\ UNCHANGED <<config, unetVars>>

(* dump_module(model, path) returns: the file holds the whole module *)
Dump(k) ==
    /\ pc[k] = "dump"
    /\ files' = [files EXCEPT ![k] =
                    [exists |-> TRUE, complete |-> TRUE, module |-> proc[k].model]]
    /\ pc' = [pc EXCEPT ![k] = "exit"]
    /\ UNCHANGED <<config, proc, writes, unetVars>>

(* train returns and the process of the job exits: the job has succeeded *)
Exit(k) ==
    /\ pc[k] = "exit"
    /\ pc' = [pc EXCEPT ![k] = "success"]
    /\ UNCHANGED <<config, proc, files, writes, unetVars>>

(* an exception or the end of the job's time limit: the process dies, at any *)
(* position, also during or after the write of the checkpoint                *)
Abort(k) ==
    /\ Running(k)
    /\ pc' = [pc EXCEPT ![k] = "failed"]
    /\ proc' = [proc EXCEPT ![k] = Dead(k, pc[k])]
    /\ UNCHANGED <<config, files, writes, unetVars>>

Next ==
    \E k \in Laps :
        \/ Schedule(k)
        \/ Previous(k)
        \/ Generate(k)
        \/ Setup(k)
        \/ \E isnan \in BOOLEAN : SgdStep(k, isnan)
        \/ EndEpoch(k)
        \/ Checkpoint(k)
        \/ Dump(k)
        \/ Exit(k)
        \/ Abort(k)

----------------------------------------------------------------------------
(* UNet.__init__ and UNet.__call__ *)

MaxL == 3         \* number of stages, len(hid_blocks)
MaxBlocks == 1    \* hid_blocks[i]
MaxHalfKernel == 1    \* kernel_size[j] is 2 * r + 1 for r in 0 .. MaxHalfKernel
MaxSize == 4      \* H and W of the input

(* channel counts: hid_channels[i] is i, in_channels and out_channels are *)
ChanIn == -1
ChanOut == -2

Block(type, cin, cout, stride) ==
    [type |-> type, cin |-> cin, cout |-> cout, stride |-> stride]

(* hid_blocks[i] repetitions of ResBlock (and AttBlock when i in heads) *)
RECURSIVE Repeat(_, _, _)
Repeat(n, i, att) ==
    IF n = 0 THEN <<>>
    ELSE <<Block("ResBlock", i, i, 1)>>
         \o (IF att THEN <<Block("AttBlock", i, i, 1)>> ELSE <<>>)
         \o Repeat(n - 1, i, att)

(* the list `do` of stage i (0-based), after do.insert(0, Conv) *)
Do(c, i) ==
    (IF i > 0 THEN <<Block("Conv", i - 1, i, 2)>> ELSE <<Block("Conv", ChanIn, i, 1)>>)
    \o (IF i \in c.heads THEN <<Block("PosEmbedding", i, i, 1)>> ELSE <<>>)
    \o Repeat(c.hid_blocks[i + 1], i, i \in c.heads)

(* the list `up` of stage i (0-based), after up.append(...) *)
Up(c, i) ==
    Repeat(c.hid_blocks[i + 1], i, i \in c.heads)
    \o (IF i > 0 THEN <<Block("Upsample", i, i - 1, 2)>> ELSE <<Block("Linear", i, ChanOut, 1)>>)

(* self.descent: descent.append(do) for i = 0, 1, ... *)
Descent(c) == [j \in 1 .. c.L |-> [depth |-> j - 1, blocks |-> Do(c, j - 1)]]

(* self.ascent: ascent.insert(0, up) for i = 0, 1, ...: deepest stage first *)
Ascent(c) == [j \in 1 .. c.L |-> [depth |-> c.L - j, blocks |-> Up(c, c.L - j)]]

(* a convolution without padding *)
ConvOutNoPadding(h, k, stride) == ((h - k) \div stride) + 1

(* output size of nn.Conv along one axis: padding (k // 2, k // 2), no dilation *)
ConvOut(h, k, stride) == ((h + 2 * (k \div 2) - k) \div stride) + 1

(* nn.Resample(factor=stride, method='nearest') along one axis *)
Resample(h, factor) == h * factor

(* numpy broadcasting of two sizes along one axis; 0 when they are incompatible *)
Broadcast(a, b) ==
    IF a = b THEN a ELSE IF a = 1 THEN b ELSE IF b = 1 THEN a ELSE 0

ShapeOk(shape) == \A j \in 1 .. Len(shape) : shape[j] > 0

(* x + y on arrays: broadcast shapes, equal channels *)
Add(a, b, id) ==
    LET shape == [j \in 1 .. Len(a.shape) |-> Broadcast(a.shape[j], b.shape[j])]
    IN [id |-> id, shape |-> shape, chan |-> a.chan, depth |-> a.depth,
        ok |-> a.ok /\ b.ok /\ a.chan = b.chan /\ ShapeOk(shape)]

(* block(x, t) or block(x) for one block of a stage *)
ApplyBlock(blk, t, kernel_size, id) ==
    LET conv(shape, stride) ==
            [j \in 1 .. Len(shape) |-> ConvOut(shape[j], kernel_size[j], stride)]
        out(shape, chan, ok) ==
            [id |-> id, shape |-> shape, chan |-> chan, depth |-> t.depth, ok |-> ok]
    IN CASE blk.type = "Conv" ->
              out(conv(t.shape, blk.stride), blk.cout, t.ok /\ t.chan = blk.cin)
         [] blk.type = "ResBlock" ->
              \* x + c * block(...): two stride-1 convolutions, then the residual sum
              LET y == out(conv(conv(t.shape, 1), 1), blk.cout, t.ok /\ t.chan = blk.cin)
              IN Add(t, y, id)
         [] blk.type = "Upsample" ->
              out(conv([j \in 1 .. Len(t.shape) |-> Resample(t.shape[j], blk.stride)], 1),
                  blk.cout, t.ok /\ t.chan = blk.cin)
         [] blk.type = "Linear" ->
              out(t.shape, blk.cout, t.ok /\ t.chan = blk.cin)
         [] OTHER -> \* AttBlock, PosEmbedding: shape and channels kept
              out(t.shape, t.chan, t.ok /\ t.chan = blk.cin)

(* for block in blocks: x = block(...) *)
RECURSIVE ApplyBlocks(_, _, _, _)
ApplyBlocks(blocks, t, kernel_size, id) ==
    IF blocks = <<>> THEN t
    ELSE ApplyBlocks(Tail(blocks), ApplyBlock(Head(blocks), t, kernel_size, id),
                     kernel_size, id)

(* memory.pop(0): first in, first out *)
MemoryPopFirst(mem) == mem[1]

(* y = memory.pop() *)
MemoryPop(mem) == mem[Len(mem)]

(* if x is not y *)
IsNot(a, b) == a.id # b.id

UNetConfigs ==
    { c \in [L : 1 .. MaxL,
             hid_blocks : UNION { [1 .. l -> 0 .. MaxBlocks] : l \in 1 .. MaxL },
             heads : {{}} \cup { {i} : i \in 0 .. (MaxL - 1) },
             kernel_size : { <<2 * r + 1, 2 * r + 1>> : r \in 0 .. MaxHalfKernel },
             shape : (1 .. MaxSize) \X (1 .. MaxSize)] :
        /\ Len(c.hid_blocks) = c.L
        /\ c.heads \subseteq 0 .. (c.L - 1) }

InitUNet ==
    /\ net \in UNetConfigs
    /\ upc = "descent"
    /\ x = [id |-> 0, shape |-> net.shape, chan |-> ChanIn, depth |-> -1, ok |-> TRUE]
    /\ memory = <<>>
    /\ skips = <<>>
    /\ fresh = 1

(* one iteration of `for blocks in self.descent` *)
Descend ==
    /\ upc = "descent"
    /\ LET stage == Descent(net)[Len(memory) + 1]
           out == [ApplyBlocks(stage.blocks, x, net.kernel_size, fresh)
                       EXCEPT !.depth = stage.depth]
       IN /\ x' = out
          /\ IF out.ok
             THEN /\ memory' = Append(memory, out)
                  /\ upc' = IF Len(memory) + 1 = net.L THEN "ascent" ELSE "descent"
             ELSE /\ memory' = memory
                  /\ upc' = "raised"
    /\ fresh' = fresh + 1
    /\ UNCHANGED <<net, skips, trainVars>>

(* one iteration of `for blocks in self.ascent`, and `return x` after the last *)
Ascend ==
    /\ upc = "ascent"
    /\ LET stage == Ascent(net)[Len(skips) + 1]
           y == MemoryPop(memory)
           add == IsNot(x, y)
           sum == IF add THEN Add(x, y, fresh) ELSE x
           out == [ApplyBlocks(stage.blocks, sum, net.kernel_size, fresh)
                       EXCEPT !.depth = stage.depth]
       IN /\ x' = out
          /\ skips' = Append(skips, [depth |-> stage.depth, from |-> y.depth,
                                     added |-> add, xshape |-> x.shape,
                                     yshape |-> y.shape])
          /\ upc' = IF ~out.ok THEN "raised"
                    ELSE IF Len(skips) + 1 = net.L THEN "returned" ELSE "ascent"
    /\ memory' = SubSeq(memory, 1, Len(memory) - 1)
    /\ fresh' = fresh + 1
    /\ UNCHANGED <<net, trainVars>>

NextCall == Descend \/ Ascend

----------------------------------------------------------------------------
(* Specifications *)

InitUNetIdle ==
    /\ net = [L |-> 0]
    /\ upc = "idle"
    /\ x = 0
    /\ memory = <<>>
    /\ skips = <<>>
    /\ fresh = 0

InitTrainIdle ==
    /\ config = [epochs |-> 1, batch_size |-> 1, N |-> 0, NTest |-> 0]
    /\ pc = [k \in Laps |-> "pending"]
    /\ proc = [k \in Laps |-> LocalsInit]
    /\ files = [k \in Laps |-> NoFile]
    /\ writes = [k \in Laps |-> 0]

Init == InitTrain /\ InitUNetIdle

(* the job chain of train.py *)
Spec == Init /\ [][Next]_vars

InitCall == InitTrainIdle /\ InitUNet

(* one call of UNet.__call__ on a UNet built by UNet.__init__ *)
SpecUNet == InitCall /\ [][NextCall]_vars

----------------------------------------------------------------------------
(* Properties *)

Started(k) == pc[k] \in {"train", "checkpoint", "dump", "exit", "success"}

(* the weights a lap starts from: the loaded checkpoint or the fresh model *)
StartWeights(k) == IF k > 0 THEN files[k - 1].module.weights ELSE make_model.weights

(* full batches of the generated training set *)
TrainBatches == iter_len(generate(config.N, config.batch_size).rows, config.batch_size)

(* C1: lap k is started only after lap k-1 has succeeded and written          *)
(* checkpoint_{k-1}; the module lap k loads is the one lap k-1 dumped; at most *)
(* one lap is active at any time.                                              *)
C1_LapsInOrder ==
    /\ Cardinality({k \in Laps : Running(k)}) <= 1
    /\ \A k \in Laps \ {0} :
        /\ pc[k] # "pending" =>
              /\ pc[k - 1] = "success"
              /\ files[k - 1].exists /\ files[k - 1].complete
              /\ writes[k - 1] = 1
              /\ files[k - 1].module = proc[k - 1].model
        /\ pc[k] \in {"generate", "setup"} =>
              proc[k].previous = files[k - 1].module

C1_Witness ==
    /\ MaxLaps > 1
    /\ pc[1] = "generate"
    /\ proc[1].previous.kind = "denoiser"
    /\ proc[1].previous.weights.ema > 0

BeforeDump == {"previous", "generate", "setup", "train", "eval", "checkpoint"}

(* the checkpoint files and the laps that wrote them *)
C2_CheckpointState ==
    \A k \in Laps :
        /\ writes[k] <= 1
        /\ files[k].exists <=> writes[k] = 1
        /\ files[k].complete => files[k].exists
        /\ files[k].exists =>
              /\ pc[k] \in {"dump", "exit", "success", "failed"}
              /\ proc[k].epoch = config.epochs
              /\ proc[k].sgdCalls = config.epochs * TrainBatches
              /\ proc[k].evals = config.epochs \div EvalEvery
        /\ (pc[k] = "failed" /\ proc[k].diedAt \in BeforeDump) => ~files[k].exists
        /\ pc[k] \in BeforeDump \cup {"pending"} => ~files[k].exists

(* checkpoint_k changes only while lap k is inside its one dump_module call, *)
(* and never once it is complete                                             *)
C2_CheckpointStep ==
    \A k \in Laps :
        files'[k] # files[k] =>
            /\ pc[k] \in {"checkpoint", "dump"}
            /\ ~files[k].complete

(* C2: checkpoint_k is written at most once, only after all the epochs of lap *)
(* k are done; a lap that aborts before its dump_module call leaves no         *)
(* checkpoint_k; no lap changes the checkpoint of another lap, and a complete  *)
(* checkpoint is never changed afterwards.                                     *)
C2_WriteOnce == [](C2_CheckpointState) /\ [][C2_CheckpointStep]_vars

C2_Witness ==
    /\ MaxLaps > 1
    /\ files[0].complete
    /\ pc[1] = "failed"
    /\ proc[1].diedAt = "train"
    /\ ~files[1].exists
    /\ config.epochs > EvalEvery

(* C3: a lap whose loss was non-finite on consecutive sgd_step calls does not *)
(* complete its epoch loop and writes no checkpoint.                           *)
C3_DivergenceAborts ==
    \A k \in Laps :
        proc[k].nanStreak = 2 =>
            /\ pc[k] \notin {"checkpoint", "dump", "exit", "success"}
            /\ ~files[k].exists

(* C4: the flag is off at every sample() call on a network and on at every    *)
(* sgd_step, also after a periodic evaluation.                                 *)
C4_TrainingFlag ==
    \A k \in Laps :
        /\ proc[k].sampled.training # "on"
        /\ proc[k].sampled.kind = "denoiser" => proc[k].sampled.training = "off"
        /\ proc[k].sgdCalls > 0 => proc[k].sgdMode = "on"

C4_Witness ==
    \E k \in Laps \ {0} :
        /\ proc[k].sgdAfterEval
        /\ proc[k].sampled.site = "eval"
        /\ proc[k].sgdMode = "on"

(* C5: after n steps of a lap the optimizer has updated the parameters n      *)
(* times, the shadow has been averaged n times, each time with the parameters  *)
(* just updated, and the gradient was taken at the parameters, not the shadow. *)
C5_StepOrder ==
    \A k \in Laps :
        Started(k) =>
            LET p == proc[k]
                n == p.sgdCalls
                w == StartWeights(k)
            IN /\ p.opt_state = n
               /\ p.params = [opt |-> w.opt + n, ema |-> w.ema]
               /\ p.avrg = [opt |-> w.opt + n, ema |-> w.ema + n]
               /\ n > 0 => p.grads = [opt |-> w.opt + n - 1, ema |-> w.ema]

C5_Witness ==
    \E k \in Laps \ {0} :
        /\ pc[k] = "train"
        /\ proc[k].sgdCalls >= 2
        /\ proc[k].grads # proc[k].avrg

(* C8: mu_x is assigned once per lap, after the generation and before the     *)
(* first step, and keeps its value up to the checkpoint; the previous model    *)
(* generates with the mu_x it came with.                                       *)
C8_MuOnce ==
    \A k \in Laps :
        LET p == proc[k]
        IN /\ p.muAssigns <= 1
           /\ pc[k] \in {"pending", "previous", "generate", "setup"} =>
                 p.muAssigns = 0 /\ p.sgdCalls = 0
           /\ p.sgdCalls > 0 => p.muAssigns = 1
           /\ iter_len(config.N, config.batch_size) = 0 =>
                 ~Started(k) /\ p.muAssigns = 0
           /\ p.sampled.site = "generate" =>
                 p.sampled.mu_x = IF k > 0 THEN k - 1 ELSE MuFit
           /\ Started(k) =>
                 /\ p.muAssigns = 1
                 /\ p.others = k
                 /\ EllModule(k, p.params).mu_x = k
           /\ p.sampled.site = "eval" => p.sampled.mu_x = k
           /\ files[k].complete => files[k].module.mu_x = k

C8_Witness ==
    /\ MaxLaps > 1
    /\ files[1].complete
    /\ proc[1].sgdCalls > 0
    /\ files[0].module.mu_x # files[1].module.mu_x

(* C9: validation, periodic evaluation and checkpoint read the shadow as it   *)
(* stands after the last completed step.                                       *)
C9_ShadowRead ==
    \A k \in Laps :
        LET p == proc[k]
        IN /\ (Started(k) /\ p.epoch > 0 /\ p.batch = 0) =>
                 /\ p.loss_val = p.avrg
                 /\ p.sampled.site = "eval" /\ p.epoch % EvalEvery = 0 =>
                       p.sampled.weights = p.avrg
           /\ files[k].complete => files[k].module.weights = p.avrg
           /\ (Started(k) /\ p.sgdCalls > 0) => p.avrg # p.params

C9_Witness ==
    \E k \in Laps :
        /\ files[k].complete
        /\ proc[k].sampled.site = "eval"
        /\ proc[k].loss_val # proc[k].params

(* C10: the sgd_step calls of a lap never exceed E * N // b, the value of     *)
(* steps once the lap has computed it, and are E times the full batches in a   *)
(* lap that completes; they equal steps when b divides N. A lap whose training *)
(* set has no full batch makes no call: it dies before steps is computed.      *)
C10_StepCount ==
    \A k \in Laps :
        /\ proc[k].sgdCalls <= (config.epochs * config.N) \div config.batch_size
        /\ config.N < config.batch_size =>
              ~Started(k) /\ proc[k].sgdCalls = 0 /\ proc[k].steps = 0
        /\ Started(k) =>
              /\ proc[k].steps = (config.epochs * config.N) \div config.batch_size
              /\ proc[k].sgdCalls <= proc[k].steps
              /\ pc[k] = "success" =>
                    /\ proc[k].sgdCalls = config.epochs * (config.N \div config.batch_size)
                    /\ config.N % config.batch_size = 0 =>
                          proc[k].sgdCalls = proc[k].steps

C10_Witness ==
    \E k \in Laps :
        /\ pc[k] = "success"
        /\ config.N % config.batch_size # 0
        /\ proc[k].sgdCalls > 0
        /\ proc[k].sgdCalls < proc[k].steps

(* C6: the j-th ascending stage runs the blocks of depth L-j and pops the     *)
(* output of the descending stage of that depth; it adds it unless it is the   *)
(* deepest; the memory is empty at the return.                                 *)
C6_SkipMatch ==
    /\ \A j \in 1 .. Len(skips) :
          /\ skips[j].depth = net.L - j
          /\ skips[j].from = skips[j].depth
          /\ skips[j].added = (skips[j].depth < net.L - 1)
    /\ upc \in {"ascent", "returned"} => Len(memory) + Len(skips) = net.L
    /\ upc = "returned" => memory = <<>> /\ Len(skips) = net.L

C6_Witness ==
    /\ upc = "returned"
    /\ net.L = MaxL
    /\ Len(skips) = MaxL
    /\ skips[MaxL].added

SameSize ==
    /\ upc # "raised"
    /\ \A j \in 1 .. Len(skips) : skips[j].added => skips[j].xshape = skips[j].yshape
    /\ upc = "returned" => x.shape = net.shape /\ x.chan = ChanOut

RECURSIVE Pow2(_)
Pow2(n) == IF n = 0 THEN 1 ELSE 2 * Pow2(n - 1)

(* C7, as stated: for every H, W >= 1 and every number of stages the output   *)
(* has the spatial size of the input and every skip addition is between equal  *)
(* shapes.                                                                     *)
C7_AnySize == SameSize

(* C7, amended: the same, for H and W multiples of 2^(L-1) (odd kernel sizes). *)
C7_DivisibleSize ==
    (\A j \in 1 .. Len(net.shape) : net.shape[j] % Pow2(net.L - 1) = 0)
    => SameSize

C7_Witness ==
    /\ upc = "returned"
    /\ net.L = MaxL
    /\ net.kernel_size = <<3, 3>>
    /\ x.shape = net.shape
    /\ \E j \in 1 .. Len(skips) : skips[j].added /\ skips[j].xshape[1] < net.shape[1]

====
